---- MODULE Spec2Model ----
(***************************************************************************)
(* Lifecycle and graceful shutdown of the RTMP worker instance             *)
(* (package fathomrtmp, rtmp.go).                                          *)
(*                                                                         *)
(* Tasks: the coordinator (startServer), the lifetime timer, the usage     *)
(* timer, and one /stream request per handler slot (handleNewStream and    *)
(* the processing goroutine it starts).                                    *)
(***************************************************************************)
EXTENDS Integers, Sequences, FiniteSets, TLC

(***************************************************************************)
(* Bounds of the model.                                                    *)
(***************************************************************************)
\* Number of /stream requests the control plane sends in one run.
MaxRequests == 2

\* Number of /status requests sent in one run.
MaxStatusRequests == 1

\* An instant, in minutes after start, strictly inside the first usage
\* countdown, at which the clock is sampled.
SampleMinutes == 5

(***************************************************************************)
(* Program constants.                                                      *)
(***************************************************************************)
lifetimeTimeoutHours == 6

usageTimeoutMinutes == 15

InstanceStatus ==
    [ Inactive          |-> "Inactive",
      Starting          |-> "Starting",
      Running           |-> "Running",
      ShutdownRequested |-> "ShutdownRequested",
      ShuttingDown      |-> "ShuttingDown",
      ShutdownFailed    |-> "ShutdownFailed" ]

ShutdownReason == [ Usage |-> "usage", Lifetime |-> "lifetime" ]

(***************************************************************************)
(* Inputs of a /stream request: the JSON body {id, url}, or a body that    *)
(* does not decode.                                                        *)
(***************************************************************************)
UUIDs == {"a", "b"}

\* Targets net.Dial can connect to, and one it cannot connect to.
ReachableURLs == {"origin:1935"}

UnreachableURLs == {"offline:1935"}

\* conn.RemoteAddr().String(): the resolved address of the dialled target.
RemoteAddr(url) == IF url = "origin:1935" THEN "10.0.0.1:1935" ELSE url

\* Strings that can be used as a key of the connections map.
Keys == UUIDs \cup { RemoteAddr(u) : u \in ReachableURLs }

Handlers == 1 .. MaxRequests

\* Holders of a mutex: 0 when it is unlocked, a handler's number, or the
\* coordinator.
Free == 0

Coordinator == MaxRequests + 1

\* The calls of getStatus, numbered after the coordinator as mutex holders.
StatusHandlers == (Coordinator + 1) .. (Coordinator + MaxStatusRequests)

NoReq == [uuid |-> "", addr |-> ""]

\* The instants (minutes since start) at which the clock is observed.
Instants ==
    { 0, SampleMinutes, usageTimeoutMinutes, lifetimeTimeoutHours * 60 }

VARIABLES
    status,          \* var status instanceStatusType
    statusMux,       \* holder of statusMux, or Free
    connections,     \* var connections: key -> handler owning the conn, or 0
    connectionsMux,  \* holder of connectionsMux, or Free
    wg,              \* counter of the sync.WaitGroup of startServer
    coordPc,         \* position of startServer
    usPc,            \* position inside updateStatusAndSendRequest
    updErr,          \* error returned by the last updateStatusAndSendRequest
    prevStatus,      \* status before the last call assigned it
    shutdownReason,  \* local shutdownReason of startServer
    lifetimePc,      \* position of startLifetimeTimer
    usagePc,         \* position of startUsageTimer
    now,             \* minutes since startServer began
    lastAdmit,       \* instant of the latest registration during the usage
                     \* countdown; -1 if none, or the countdown is over
    admittedBeforeRequest,
                     \* history, kept from requestShutdown until
                     \* confirmShutdown: the handlers whose session was
                     \* registered and unfinished when status became
                     \* ShutdownRequested and is unfinished still
    hpc,             \* position of each handleNewStream call / its goroutine
    hreq,            \* streamDetails.UUID and conn.RemoteAddr() of each call
    herr,            \* err of connectionComplete in each goroutine
    response,        \* HTTP status written to each caller, 0 while none
    gpc,             \* position of each getStatus call
    statusReports,   \* requests sent to /update-status, in order
    completions,     \* number of requests sent to /complete per uuid
    events           \* requests sent to /notify, in order

vars ==
    << status, statusMux, connections, connectionsMux, wg, coordPc, usPc,
       updErr, prevStatus, shutdownReason, lifetimePc, usagePc, now, lastAdmit,
       admittedBeforeRequest, hpc, hreq, herr, response, gpc, statusReports,
       completions, events >>

Init ==
    /\ status = InstanceStatus.Inactive
    /\ statusMux = Free
    /\ connections = [k \in Keys |-> 0]
    /\ connectionsMux = Free
    /\ wg = 0
    /\ coordPc = "start"
    /\ usPc = "call"
    /\ updErr = FALSE
    /\ prevStatus = InstanceStatus.Inactive
    /\ shutdownReason = ""
    /\ lifetimePc = "unstarted"
    /\ usagePc = "unstarted"
    /\ now = 0
    /\ lastAdmit = -1
    /\ admittedBeforeRequest = {}
    /\ hpc = [h \in Handlers |-> "idle"]
    /\ hreq = [h \in Handlers |-> NoReq]
    /\ herr = [h \in Handlers |-> FALSE]
    /\ response = [h \in Handlers |-> 0]
    /\ gpc = [g \in StatusHandlers |-> "idle"]
    /\ statusReports = << >>
    /\ completions = [u \in UUIDs |-> 0]
    /\ events = << >>

\* The keys present in the connections map, and len(connections).
Registered == { k \in Keys : connections[k] # 0 }

LenConnections == Cardinality(Registered)

\* Handlers whose session is in the registry's hands: registered, and the
\* processing task has not yet returned.
InFlight ==
    { h \in Handlers : hpc[h] \in {"respond", "stream", "complete", "unlock"} }

(***************************************************************************)
(* The clock, which counts from the moment startServer starts the timers.  *)
(* time.Sleep and time.Timer give "not before": a timer task proceeds at   *)
(* its deadline or at any later instant.                                   *)
(***************************************************************************)
Tick ==
    /\ coordPc # "start"
    /\ \E t \in Instants :
          /\ t > now
          /\ \A u \in Instants : u > now => t <= u
          /\ now' = t
    /\ UNCHANGED << status, statusMux, connections, connectionsMux, wg,
                    coordPc, usPc, updErr, prevStatus, shutdownReason,
                    lifetimePc, usagePc, lastAdmit, admittedBeforeRequest,
                    hpc, hreq, herr, response, gpc, statusReports,
                    completions, events >>

(***************************************************************************)
(* startLifetimeTimer                                                      *)
(***************************************************************************)
\* time.Sleep(lifetimeTimeoutHours * time.Hour) returns.
LifetimeExpire ==
    /\ lifetimePc = "sleep"
    /\ now >= lifetimeTimeoutHours * 60
    /\ lifetimePc' = "send"
    /\ UNCHANGED << status, statusMux, connections, connectionsMux, wg,
                    coordPc, usPc, updErr, prevStatus, shutdownReason,
                    usagePc, now, lastAdmit, admittedBeforeRequest, hpc, hreq,
                    herr, response, gpc, statusReports, completions, events >>

(***************************************************************************)
(* startUsageTimer.  The timer is created when the task starts.  The       *)
(* select also waits on connectionChan, but startServer hands that channel *)
(* to no other task and nothing ever sends on it, so that case is never    *)
(* ready; the only case that can be taken is <-timer.C.                    *)
(***************************************************************************)
UsageDeadline == usageTimeoutMinutes

UsageExpire ==
    /\ usagePc = "select"
    /\ now >= UsageDeadline
    /\ usagePc' = "send"
    /\ lastAdmit' = -1
    /\ UNCHANGED << status, statusMux, connections, connectionsMux, wg,
                    coordPc, usPc, updErr, prevStatus, shutdownReason,
                    lifetimePc, now, admittedBeforeRequest, hpc, hreq, herr,
                    response, gpc, statusReports, completions, events >>

(***************************************************************************)
(* updateStatusAndSendRequest, called by the coordinator from              *)
(* confirmStartup, requestShutdown and confirmShutdown.                    *)
(***************************************************************************)
UpdateCalls == {"confirmStartup", "requestShutdown", "confirmShutdown"}

\* Variant: requestShutdown and confirmShutdown pass each other's status.
NewStatus_Swapped(pc) ==
    CASE pc = "confirmStartup"  -> InstanceStatus.Running
      [] pc = "requestShutdown" -> InstanceStatus.ShuttingDown
      [] pc = "confirmShutdown" -> InstanceStatus.ShutdownRequested

\* newStatus of the call the coordinator is making.
NewStatus(pc) ==
    CASE pc = "confirmStartup"  -> InstanceStatus.Running
      [] pc = "requestShutdown" -> InstanceStatus.ShutdownRequested
      [] pc = "confirmShutdown" -> InstanceStatus.ShuttingDown

\* params of the call: requestShutdown adds the reason, the others pass nil.
Params(pc) == IF pc = "requestShutdown" THEN shutdownReason ELSE ""

\* Variant: the coordinator goes back to the receive after a request.
AfterRequestShutdown_Loop == "receive"

\* The statement after requestShutdown(shutdownReason) in startServer.
AfterRequestShutdown == "lockConnections"

\* The statement of startServer that follows each call.
AfterUpdate(pc) ==
    CASE pc = "confirmStartup"  -> "receive"
      [] pc = "requestShutdown" -> AfterRequestShutdown
      [] pc = "confirmShutdown" -> "shutdown"

\* Variant: a failed request restores the status held before the call.
StatusAfterSend_Rollback(assigned, previous, ok) ==
    IF ok THEN assigned ELSE previous

\* The value of status once SendRequest has returned: the function sets
\* status before the request and does not touch it afterwards.
StatusAfterSend(assigned, previous, ok) == assigned

\* statusMux.Lock(); status = newStatus
UpdateLock ==
    /\ coordPc \in UpdateCalls
    /\ usPc = "call"
    /\ statusMux = Free
    /\ statusMux' = Coordinator
    /\ status' = NewStatus(coordPc)
    /\ prevStatus' = status
    /\ usPc' = "send"
    /\ admittedBeforeRequest' =
          IF coordPc = "requestShutdown" THEN InFlight ELSE {}
    /\ UNCHANGED << connections, connectionsMux, wg, coordPc, updErr,
                    shutdownReason, lifetimePc, usagePc, now, lastAdmit, hpc,
                    hreq, herr, response, gpc, statusReports, completions,
                    events >>

\* params.Add("status", newStatus); err := SendRequest(UpdateStatus, params)
UpdateSend ==
    /\ coordPc \in UpdateCalls
    /\ usPc = "send"
    /\ \E ok \in BOOLEAN :
          /\ statusReports' =
                Append(statusReports,
                       [ status |-> NewStatus(coordPc),
                         reason |-> Params(coordPc) ])
          /\ updErr' = ~ok
          /\ status' = StatusAfterSend(status, prevStatus, ok)
    /\ usPc' = "unlock"
    /\ UNCHANGED << statusMux, connections, connectionsMux, wg, coordPc,
                    prevStatus, shutdownReason, lifetimePc, usagePc, now,
                    lastAdmit, admittedBeforeRequest, hpc, hreq, herr,
                    response, gpc, completions, events >>

\* statusMux.Unlock(); return err
UpdateUnlock ==
    /\ coordPc \in UpdateCalls
    /\ usPc = "unlock"
    /\ statusMux = Coordinator
    /\ statusMux' = Free
    /\ usPc' = "call"
    /\ coordPc' = AfterUpdate(coordPc)
    /\ UNCHANGED << status, connections, connectionsMux, wg, updErr,
                    prevStatus, shutdownReason, lifetimePc, usagePc, now,
                    lastAdmit, admittedBeforeRequest, hpc, hreq, herr,
                    response, gpc, statusReports, completions, events >>

(***************************************************************************)
(* startServer                                                             *)
(***************************************************************************)
\* Channels and wait group made, both timers started, handlers installed,
\* the listener started.
StartServer ==
    /\ coordPc = "start"
    /\ coordPc' = "confirmStartup"
    /\ lifetimePc' = "sleep"
    /\ usagePc' = "select"
    /\ UNCHANGED << status, statusMux, connections, connectionsMux, wg, usPc,
                    updErr, prevStatus, shutdownReason, now, lastAdmit,
                    admittedBeforeRequest, hpc, hreq, herr, response, gpc,
                    statusReports, completions, events >>

\* shutdownReason := <-shutdownServer, the sender being the lifetime timer.
\* The channel is unbuffered: the send completes only in this rendezvous.
ReceiveLifetime ==
    /\ coordPc = "receive"
    /\ lifetimePc = "send"
    /\ shutdownReason' = ShutdownReason.Lifetime
    /\ lifetimePc' = "done"
    /\ coordPc' = "requestShutdown"
    /\ UNCHANGED << status, statusMux, connections, connectionsMux, wg, usPc,
                    updErr, prevStatus, usagePc, now, lastAdmit,
                    admittedBeforeRequest, hpc, hreq, herr, response, gpc,
                    statusReports, completions, events >>

\* shutdownReason := <-shutdownServer, the sender being the usage timer,
\* which then logs and returns.
ReceiveUsage ==
    /\ coordPc = "receive"
    /\ usagePc = "send"
    /\ shutdownReason' = ShutdownReason.Usage
    /\ usagePc' = "done"
    /\ coordPc' = "requestShutdown"
    /\ UNCHANGED << status, statusMux, connections, connectionsMux, wg, usPc,
                    updErr, prevStatus, lifetimePc, now, lastAdmit,
                    admittedBeforeRequest, hpc, hreq, herr, response, gpc,
                    statusReports, completions, events >>

\* connectionsMux.Lock()
LockConnections ==
    /\ coordPc = "lockConnections"
    /\ connectionsMux = Free
    /\ connectionsMux' = Coordinator
    /\ coordPc' = "unlockConnections"
    /\ UNCHANGED << status, statusMux, connections, wg, usPc, updErr,
                    prevStatus, shutdownReason, lifetimePc, usagePc, now,
                    lastAdmit, admittedBeforeRequest, hpc, hreq, herr,
                    response, gpc, statusReports, completions, events >>

\* Variant: the count is logged but the mutex is not released.
UnlockConnections_Missing ==
    /\ coordPc = "unlockConnections"
    /\ connectionsMux = Coordinator
    /\ coordPc' = "wait"
    /\ UNCHANGED << status, statusMux, connections, connectionsMux, wg, usPc,
                    updErr, prevStatus, shutdownReason, lifetimePc, usagePc,
                    now, lastAdmit, admittedBeforeRequest, hpc, hreq, herr,
                    response, gpc, statusReports, completions, events >>

\* if len(connections) > 0 { log }; connectionsMux.Unlock()
UnlockConnections ==
    /\ coordPc = "unlockConnections"
    /\ connectionsMux = Coordinator
    /\ connectionsMux' = Free
    /\ coordPc' = "wait"
    /\ UNCHANGED << status, statusMux, connections, wg, usPc, updErr,
                    prevStatus, shutdownReason, lifetimePc, usagePc, now,
                    lastAdmit, admittedBeforeRequest, hpc, hreq, herr,
                    response, gpc, statusReports, completions, events >>

\* wg.Wait() returns: the counter is zero.
Wait ==
    /\ coordPc = "wait"
    /\ wg = 0
    /\ coordPc' = "confirmShutdown"
    /\ UNCHANGED << status, statusMux, connections, connectionsMux, wg, usPc,
                    updErr, prevStatus, shutdownReason, lifetimePc, usagePc,
                    now, lastAdmit, admittedBeforeRequest, hpc, hreq, herr,
                    response, gpc, statusReports, completions, events >>

\* server.Shutdown(ctx) with the 5 s context: the listener is closed and the
\* call returns nil, or an error when the server did not stop in time.
Shutdown ==
    /\ coordPc = "shutdown"
    /\ \E ok \in BOOLEAN : coordPc' = IF ok THEN "exited" ELSE "notify"
    /\ UNCHANGED << status, statusMux, connections, connectionsMux, wg, usPc,
                    updErr, prevStatus, shutdownReason, lifetimePc, usagePc,
                    now, lastAdmit, admittedBeforeRequest, hpc, hreq, herr,
                    response, gpc, statusReports, completions, events >>

\* notifyKubernetes("Server Shutdown Failed", err.Error()); then the
\* function returns.  The result of http.Post is discarded.
NotifyShutdownFailed ==
    /\ coordPc = "notify"
    /\ events' = Append(events, "Server Shutdown Failed")
    /\ coordPc' = "exited"
    /\ UNCHANGED << status, statusMux, connections, connectionsMux, wg, usPc,
                    updErr, prevStatus, shutdownReason, lifetimePc, usagePc,
                    now, lastAdmit, admittedBeforeRequest, hpc, hreq, herr,
                    response, gpc, statusReports, completions >>

\* The listener accepts /stream requests from the start of the server until
\* server.Shutdown closes it.
Listening == coordPc \notin {"start", "notify", "exited"}

(***************************************************************************)
(* handleNewStream and the goroutine it starts                             *)
(***************************************************************************)
\* The server dispatches the next /stream request to handleNewStream.
\* Requests are numbered in the order in which they arrive.
HandleNewStream(h) ==
    /\ Listening
    /\ hpc[h] = "idle"
    /\ \A j \in Handlers : j < h => hpc[j] # "idle"
    /\ hpc' = [hpc EXCEPT ![h] = "lock"]
    /\ UNCHANGED << status, statusMux, connections, connectionsMux, wg,
                    coordPc, usPc, updErr, prevStatus, shutdownReason,
                    lifetimePc, usagePc, now, lastAdmit,
                    admittedBeforeRequest, hreq, herr, response, gpc,
                    statusReports, completions, events >>

\* connectionsMux.Lock() at the top of handleNewStream
HandlerLock(h) ==
    /\ hpc[h] = "lock"
    /\ connectionsMux = Free
    /\ connectionsMux' = h
    /\ hpc' = [hpc EXCEPT ![h] = "decode"]
    /\ UNCHANGED << status, statusMux, connections, wg, coordPc, usPc, updErr,
                    prevStatus, shutdownReason, lifetimePc, usagePc, now,
                    lastAdmit, admittedBeforeRequest, hreq, herr, response,
                    gpc, statusReports, completions, events >>

\* The body does not decode: 400, unlock, return.
RejectMalformed(h) ==
    /\ hpc[h] = "decode"
    /\ connectionsMux = h
    /\ response' = [response EXCEPT ![h] = 400]
    /\ connectionsMux' = Free
    /\ hpc' = [hpc EXCEPT ![h] = "done"]
    /\ UNCHANGED << status, statusMux, connections, wg, coordPc, usPc, updErr,
                    prevStatus, shutdownReason, lifetimePc, usagePc, now,
                    lastAdmit, admittedBeforeRequest, hreq, herr, gpc,
                    statusReports, completions, events >>

\* Variant: the entry is stored before the dial, and stays when it fails.
RejectUnreachable_RegistersFirst(h) ==
    /\ hpc[h] = "decode"
    /\ connectionsMux = h
    /\ \E id \in UUIDs, url \in UnreachableURLs :
          /\ response' = [response EXCEPT ![h] = 500]
          /\ connections' = [connections EXCEPT ![id] = h]
    /\ connectionsMux' = Free
    /\ hpc' = [hpc EXCEPT ![h] = "done"]
    /\ UNCHANGED << status, statusMux, wg, coordPc, usPc, updErr, prevStatus,
                    shutdownReason, lifetimePc, usagePc, now, lastAdmit,
                    admittedBeforeRequest, hreq, herr, gpc, statusReports,
                    completions, events >>

\* The body decodes but net.Dial fails: 500, unlock, return.
RejectUnreachable(h) ==
    /\ hpc[h] = "decode"
    /\ connectionsMux = h
    /\ \E id \in UUIDs, url \in UnreachableURLs :
          response' = [response EXCEPT ![h] = 500]
    /\ connectionsMux' = Free
    /\ hpc' = [hpc EXCEPT ![h] = "done"]
    /\ UNCHANGED << status, statusMux, connections, wg, coordPc, usPc, updErr,
                    prevStatus, shutdownReason, lifetimePc, usagePc, now,
                    lastAdmit, admittedBeforeRequest, hreq, herr, gpc,
                    statusReports, completions, events >>

\* The map after connections[key] = conn of handler h.
MapPut(m, key, h) == [m EXCEPT ![key] = h]

\* The map after delete(connections, key); deleting an absent key is a no-op.
MapDelete(m, key) == [m EXCEPT ![key] = 0]

\* The body decodes and the dial succeeds:
\* connections[streamDetails.UUID] = conn; connectionsMux.Unlock()
Register(h) ==
    /\ hpc[h] = "decode"
    /\ connectionsMux = h
    /\ \E id \in UUIDs, url \in ReachableURLs :
          /\ connections' = MapPut(connections, id, h)
          /\ hreq' = [hreq EXCEPT
                        ![h] = [uuid |-> id, addr |-> RemoteAddr(url)]]
    /\ lastAdmit' = IF usagePc = "select" THEN now ELSE lastAdmit
    /\ connectionsMux' = Free
    /\ hpc' = [hpc EXCEPT ![h] = "respond"]
    /\ UNCHANGED << status, statusMux, wg, coordPc, usPc, updErr, prevStatus,
                    shutdownReason, lifetimePc, usagePc, now,
                    admittedBeforeRequest, herr, response, gpc, statusReports,
                    completions, events >>

\* sendResponse(w, 200, nil); wg.Add(1); go func() {...}()
Respond(h) ==
    /\ hpc[h] = "respond"
    /\ response' = [response EXCEPT ![h] = 200]
    /\ wg' = wg + 1
    /\ hpc' = [hpc EXCEPT ![h] = "stream"]
    /\ UNCHANGED << status, statusMux, connections, connectionsMux, coordPc,
                    usPc, updErr, prevStatus, shutdownReason, lifetimePc,
                    usagePc, now, lastAdmit, admittedBeforeRequest, hreq,
                    herr, gpc, statusReports, completions, events >>

\* The key the goroutine deletes: conn.RemoteAddr().String().
DeleteKey(h) == hreq[h].addr

\* HandleStream(conn) returns; connectionsMux.Lock();
\* delete(connections, conn.RemoteAddr().String())
StreamDone(h) ==
    /\ hpc[h] = "stream"
    /\ connectionsMux = Free
    /\ connectionsMux' = h
    /\ connections' = MapDelete(connections, DeleteKey(h))
    /\ hpc' = [hpc EXCEPT ![h] = "complete"]
    /\ UNCHANGED << status, statusMux, wg, coordPc, usPc, updErr, prevStatus,
                    shutdownReason, lifetimePc, usagePc, now, lastAdmit,
                    admittedBeforeRequest, hreq, herr, response, gpc,
                    statusReports, completions, events >>

\* err := connectionComplete(streamDetails.UUID), logged when not nil
ConnectionComplete(h) ==
    /\ hpc[h] = "complete"
    /\ connectionsMux = h
    /\ completions' =
          [completions EXCEPT ![hreq[h].uuid] = completions[hreq[h].uuid] + 1]
    /\ \E ok \in BOOLEAN : herr' = [herr EXCEPT ![h] = ~ok]
    /\ hpc' = [hpc EXCEPT ![h] = "unlock"]
    /\ UNCHANGED << status, statusMux, connections, connectionsMux, wg,
                    coordPc, usPc, updErr, prevStatus, shutdownReason,
                    lifetimePc, usagePc, now, lastAdmit,
                    admittedBeforeRequest, hreq, response, gpc, statusReports,
                    events >>

\* Variant: wg.Done() is skipped when connectionComplete failed.
WgDone_SkippedOnError(n, err) == IF err THEN n ELSE n - 1

\* Variant: wg.Done() is called explicitly and again by the defer.
WgDone_Twice(n, err) == n - 2

\* The wait-group counter after the deferred wg.Done() of a goroutine whose
\* connectionComplete returned err.
WgDone(n, err) == n - 1

\* connectionsMux.Unlock(); the goroutine returns, its deferred wg.Done()
\* runs and its locals (streamDetails, conn, err) go out of scope.
TaskUnlock(h) ==
    /\ hpc[h] = "unlock"
    /\ connectionsMux = h
    /\ connectionsMux' = Free
    /\ wg' = WgDone(wg, herr[h])
    /\ hreq' = [hreq EXCEPT ![h] = NoReq]
    /\ herr' = [herr EXCEPT ![h] = FALSE]
    /\ hpc' = [hpc EXCEPT ![h] = "done"]
    /\ admittedBeforeRequest' = admittedBeforeRequest \ {h}
    /\ UNCHANGED << status, statusMux, connections, coordPc, usPc, updErr,
                    prevStatus, shutdownReason, lifetimePc, usagePc, now,
                    lastAdmit, response, gpc, statusReports, completions,
                    events >>

(***************************************************************************)
(* getStatus                                                               *)
(***************************************************************************)
\* The server dispatches the next /status request to getStatus.
GetStatus(g) ==
    /\ Listening
    /\ gpc[g] = "idle"
    /\ \A j \in StatusHandlers : j < g => gpc[j] # "idle"
    /\ gpc' = [gpc EXCEPT ![g] = "lock"]
    /\ UNCHANGED << status, statusMux, connections, connectionsMux, wg,
                    coordPc, usPc, updErr, prevStatus, shutdownReason,
                    lifetimePc, usagePc, now, lastAdmit,
                    admittedBeforeRequest, hpc, hreq, herr, response,
                    statusReports, completions, events >>

\* statusMux.Lock()
GetStatusLock(g) ==
    /\ gpc[g] = "lock"
    /\ statusMux = Free
    /\ statusMux' = g
    /\ gpc' = [gpc EXCEPT ![g] = "read"]
    /\ UNCHANGED << status, connections, connectionsMux, wg, coordPc, usPc,
                    updErr, prevStatus, shutdownReason, lifetimePc, usagePc,
                    now, lastAdmit, admittedBeforeRequest, hpc, hreq, herr,
                    response, statusReports, completions, events >>

\* Variant: getStatus returns without statusMux.Unlock().
GetStatusRead_NoUnlock(g) ==
    /\ gpc[g] = "read"
    /\ statusMux = g
    /\ gpc' = [gpc EXCEPT ![g] = "done"]
    /\ UNCHANGED << status, statusMux, connections, connectionsMux, wg,
                    coordPc, usPc, updErr, prevStatus, shutdownReason,
                    lifetimePc, usagePc, now, lastAdmit,
                    admittedBeforeRequest, hpc, hreq, herr, response,
                    statusReports, completions, events >>

\* payload := {status, len(connections)}; statusMux.Unlock(); the payload
\* is marshalled and written to the caller.
GetStatusRead(g) ==
    /\ gpc[g] = "read"
    /\ statusMux = g
    /\ statusMux' = Free
    /\ gpc' = [gpc EXCEPT ![g] = "done"]
    /\ UNCHANGED << status, connections, connectionsMux, wg, coordPc, usPc,
                    updErr, prevStatus, shutdownReason, lifetimePc, usagePc,
                    now, lastAdmit, admittedBeforeRequest, hpc, hreq, herr,
                    response, statusReports, completions, events >>

Next ==
    \/ Tick
    \/ LifetimeExpire
    \/ UsageExpire
    \/ UpdateLock
    \/ UpdateSend
    \/ UpdateUnlock
    \/ StartServer
    \/ ReceiveLifetime
    \/ ReceiveUsage
    \/ LockConnections
    \/ UnlockConnections
    \/ Wait
    \/ Shutdown
    \/ NotifyShutdownFailed
    \/ \E h \in Handlers :
          \/ HandleNewStream(h)
          \/ HandlerLock(h)
          \/ RejectMalformed(h)
          \/ RejectUnreachable(h)
          \/ Register(h)
          \/ Respond(h)
          \/ StreamDone(h)
          \/ ConnectionComplete(h)
          \/ TaskUnlock(h)
    \/ \E g \in StatusHandlers :
          \/ GetStatus(g)
          \/ GetStatusLock(g)
          \/ GetStatusRead(g)

Spec == Init /\ [][Next]_vars

(***************************************************************************)
(* Scheduling.  The Go scheduler runs every goroutine that can take a      *)
(* step, the clock advances, and (README, assumptions) HandleStream always *)
(* finishes and notifier calls return.  Nothing obliges the control plane  *)
(* to send a request, so HandleNewStream and GetStatus carry no fairness.  *)
(***************************************************************************)
CoordinatorStep ==
    \/ StartServer
    \/ UpdateLock
    \/ UpdateSend
    \/ UpdateUnlock
    \/ ReceiveLifetime
    \/ ReceiveUsage
    \/ LockConnections
    \/ UnlockConnections
    \/ Wait
    \/ Shutdown
    \/ NotifyShutdownFailed

HandlerStep(h) ==
    \/ HandlerLock(h)
    \/ RejectMalformed(h)
    \/ RejectUnreachable(h)
    \/ Register(h)
    \/ Respond(h)
    \/ StreamDone(h)
    \/ ConnectionComplete(h)
    \/ TaskUnlock(h)

StatusHandlerStep(g) ==
    \/ GetStatusLock(g)
    \/ GetStatusRead(g)

FairSpec ==
    /\ Spec
    /\ WF_vars(Tick)
    /\ WF_vars(LifetimeExpire)
    /\ WF_vars(UsageExpire)
    /\ WF_vars(CoordinatorStep)
    /\ \A h \in Handlers : WF_vars(HandlerStep(h))
    /\ \A g \in StatusHandlers : WF_vars(StatusHandlerStep(g))

(***************************************************************************)
(* Vocabulary of the properties                                            *)
(***************************************************************************)
\* Statuses from ShutdownRequested on.
ShutdownStatuses ==
    { InstanceStatus.ShutdownRequested, InstanceStatus.ShuttingDown,
      InstanceStatus.ShutdownFailed }

\* Calls of handleNewStream that were rejected, and calls that registered.
RejectedCalls == { h \in Handlers : response[h] \in {400, 500} }

AdmittedCalls ==
    { h \in Handlers :
        h \in InFlight \/ (hpc[h] = "done" /\ response[h] = 200) }

\* Processing tasks that have executed their removal step.
RemovalsDone ==
    { h \in AdmittedCalls : hpc[h] \in {"complete", "unlock", "done"} }

\* Processing tasks that have sent their completion notification.
CompletionsSent == { h \in AdmittedCalls : hpc[h] \in {"unlock", "done"} }

\* Indices of the ShutdownRequested reports sent so far.
ShutdownRequestedReports ==
    { i \in DOMAIN statusReports :
        statusReports[i].status = InstanceStatus.ShutdownRequested }

(***************************************************************************)
(* C1.  No session is admitted after shutdown is requested: once status is *)
(* ShutdownRequested or later, no step puts an entry into connections or   *)
(* starts a processing task.                                               *)
(***************************************************************************)
C1_NoAdmissionAfterShutdownRequested ==
    [][ (status \in ShutdownStatuses) =>
          ( (\A k \in Keys :
                connections'[k] # 0 => connections'[k] = connections[k])
            /\ wg' <= wg ) ]_vars

(***************************************************************************)
(* C2.  The process never terminates while a session is registered: when   *)
(* status is ShuttingDown, or the coordinator has reached the final server *)
(* shutdown or has left startServer, connections is empty.                 *)
(***************************************************************************)
C2_RegistryEmptyWhenShuttingDown ==
    ( \/ status = InstanceStatus.ShuttingDown
      \/ coordPc \in {"shutdown", "notify", "exited"} )
    => Registered = {}

(***************************************************************************)
(* C3.  The drain does not return early: when wg.Wait() returns, every     *)
(* session already registered has finished its processing task.            *)
(***************************************************************************)
C3_DrainNotEarly ==
    [][ (coordPc = "wait" /\ coordPc' = "confirmShutdown")
          => InFlight = {} ]_vars

(***************************************************************************)
(* C4.  The session count equals the calls that went through admission,    *)
(* minus the rejected ones, minus the removals; it is 0 once every         *)
(* admitted session has completed.                                         *)
(***************************************************************************)
C4_CountIsAdmitsMinusRemoves ==
    connectionsMux = Free =>
        LenConnections =
            Cardinality(AdmittedCalls \cup RejectedCalls)
              - Cardinality(RejectedCalls) - Cardinality(RemovalsDone)

(***************************************************************************)
(* C5.  A session is never both present and reported complete: outside     *)
(* the registry's critical section, an id whose completion notification    *)
(* has been sent is not a key of connections.                              *)
(***************************************************************************)
C5_NotPresentAndComplete ==
    connectionsMux = Free =>
        \A u \in UUIDs : completions[u] > 0 => connections[u] = 0

(***************************************************************************)
(* C6.  Each admission resets the inactivity countdown: the usage timer    *)
(* expires only when a full usage timeout has elapsed since the latest     *)
(* admission.                                                              *)
(***************************************************************************)
C6_UsageTimedFromLastAdmission ==
    [][ (usagePc = "select" /\ usagePc' = "send" /\ lastAdmit >= 0)
          => now - lastAdmit >= usageTimeoutMinutes ]_vars

(***************************************************************************)
(* C7.  Exactly one ShutdownReason is acted upon: status enters            *)
(* ShutdownRequested at most once and at most one ShutdownRequested status *)
(* report is sent, also when both timers have expired.                     *)
(***************************************************************************)
C7_SingleShutdownTransition ==
    /\ [](Cardinality(ShutdownRequestedReports) <= 1)
    /\ [][ (status # InstanceStatus.ShutdownRequested
              /\ status' = InstanceStatus.ShutdownRequested)
            => ShutdownRequestedReports = {} ]_vars

\* Both timers have expired, one reason was consumed and reported, the other
\* timer is still at its send.
C7_Witness ==
    /\ lifetimePc \in {"send", "done"}
    /\ usagePc \in {"send", "done"}
    /\ "send" \in {lifetimePc, usagePc}
    /\ coordPc = "exited"
    /\ Cardinality(ShutdownRequestedReports) = 1

(***************************************************************************)
(* C8.  The losing timer never blocks forever: once the coordinator has    *)
(* consumed a shutdown reason, both timer tasks eventually terminate.      *)
(***************************************************************************)
C8_LosingTimerTerminates ==
    (shutdownReason # "") ~> (lifetimePc = "done" /\ usagePc = "done")

(***************************************************************************)
(* C9.  A notification failure never blocks termination: once a shutdown   *)
(* reason is delivered the coordinator reaches ShuttingDown and leaves     *)
(* startServer, whatever the outcomes of the notifications, and no         *)
(* notification is sent twice.                                             *)
(***************************************************************************)
RECURSIVE Sum(_, _)
Sum(f, S) ==
    IF S = {} THEN 0
    ELSE LET x == CHOOSE y \in S : TRUE IN f[x] + Sum(f, S \ {x})

NoRetry ==
    /\ \A i, j \in DOMAIN statusReports :
          statusReports[i].status = statusReports[j].status => i = j
    /\ Sum(completions, UUIDs) = Cardinality(CompletionsSent)
    /\ Len(events) <= 1

C9_NotificationFailureNeverBlocks ==
    /\ (shutdownReason # "")
          ~> (coordPc = "exited" /\ status = InstanceStatus.ShuttingDown)
    /\ []NoRetry

\* The coordinator has left startServer although the last status report,
\* a completion notification and the server shutdown all failed.
C9_Witness ==
    /\ coordPc = "exited"
    /\ status = InstanceStatus.ShuttingDown
    /\ updErr
    /\ events # << >>
    /\ \E h \in Handlers : hpc[h] = "unlock" /\ herr[h]

(***************************************************************************)
(* C10.  updateStatusAndSendRequest sets status to the requested status    *)
(* whatever SendRequest returns: when the request has returned, and after  *)
(* the call, status is the requested status; a failure is returned and     *)
(* does not roll status back.                                              *)
(***************************************************************************)
C10_StatusSetDespiteFailure ==
    /\ usPc = "unlock" => status = NewStatus(coordPc)
    /\ coordPc = "receive" => status = InstanceStatus.Running
    /\ coordPc \in {"lockConnections", "unlockConnections", "wait"}
          => status = InstanceStatus.ShutdownRequested
    /\ coordPc \in {"shutdown", "notify", "exited"}
          => status = InstanceStatus.ShuttingDown

\* SendRequest failed, the error is about to be returned, and status is the
\* new status, not the one before the call.
C10_Witness ==
    /\ usPc = "unlock"
    /\ updErr
    /\ status = NewStatus(coordPc)
    /\ status # prevStatus

(***************************************************************************)
(* C11.  Admitting a session whose id is already in the registry fails and *)
(* leaves the existing entry untouched: no step replaces the connection    *)
(* stored under a key that is present.                                     *)
(***************************************************************************)
C11_DuplicateNotOverwritten ==
    [][ (\A k \in Keys :
           connections[k] # 0 => connections'[k] \in {connections[k], 0}) ]_vars

(***************************************************************************)
(* C12.  The status only moves forward along Inactive, Starting, Running,  *)
(* ShutdownRequested, ShuttingDown, ShutdownFailed; ShuttingDown is entered *)
(* only from ShutdownRequested and ShutdownFailed only from ShuttingDown.  *)
(***************************************************************************)
Rank(s) ==
    CASE s = InstanceStatus.Inactive          -> 0
      [] s = InstanceStatus.Starting          -> 1
      [] s = InstanceStatus.Running           -> 2
      [] s = InstanceStatus.ShutdownRequested -> 3
      [] s = InstanceStatus.ShuttingDown      -> 4
      [] s = InstanceStatus.ShutdownFailed    -> 5

C12_StatusMovesForward ==
    [][ ( /\ Rank(status') >= Rank(status)
          /\ (status' = InstanceStatus.ShuttingDown /\ status' # status)
                => status = InstanceStatus.ShutdownRequested
          /\ (status' = InstanceStatus.ShutdownFailed /\ status' # status)
                => status = InstanceStatus.ShuttingDown ) ]_vars

\* ShuttingDown has been entered, from ShutdownRequested.
C12_Witness ==
    /\ status = InstanceStatus.ShuttingDown
    /\ prevStatus = InstanceStatus.ShutdownRequested

(***************************************************************************)
(* C13.  When the final server shutdown fails, status becomes              *)
(* ShutdownFailed and the event "Server Shutdown Failed" is reported, and  *)
(* the coordinator still exits; when it succeeds, status stays             *)
(* ShuttingDown and no event is sent.                                      *)
(***************************************************************************)
C13_ShutdownFailedStatus ==
    coordPc = "exited" =>
        IF events # << >>
        THEN /\ events = << "Server Shutdown Failed" >>
             /\ status = InstanceStatus.ShutdownFailed
        ELSE status = InstanceStatus.ShuttingDown

(***************************************************************************)
(* C14.  A failed admission changes nothing: a call rejected for a         *)
(* malformed body or an unreachable target answers 400 or 500, leaves      *)
(* connections and the wait-group counter as they were, starts no          *)
(* processing task and releases connectionsMux.                            *)
(***************************************************************************)
C14_FailedAdmissionChangesNothing ==
    [][ (\A h \in Handlers :
           (hpc[h] = "decode" /\ response'[h] # 0) =>
               /\ response'[h] \in {400, 500}
               /\ hpc'[h] = "done"
               /\ connections' = connections
               /\ wg' = wg
               /\ connectionsMux = h
               /\ connectionsMux' = Free) ]_vars

\* One call was rejected as malformed and one as unreachable; the registry
\* is still empty, no task was started and the mutex is free.
C14_Witness ==
    /\ \E h \in Handlers : response[h] = 400 /\ hpc[h] = "done"
    /\ \E h \in Handlers : response[h] = 500 /\ hpc[h] = "done"
    /\ LenConnections = 0
    /\ wg = 0
    /\ connectionsMux = Free

(***************************************************************************)
(* C17.  No lock other than the status lock is held across a call to the   *)
(* control-plane notifier: a task with a notifier call in progress does    *)
(* not hold connectionsMux.                                                *)
(***************************************************************************)
\* Tasks with a SendRequest or notifyKubernetes call in progress.
HandlersNotifying == { h \in Handlers : hpc[h] = "complete" }

CoordinatorNotifying == usPc = "send" \/ coordPc = "notify"

\* C17: no notifier call is made by a task holding connectionsMux.
C17_NoRegistryLockAcrossNotifier ==
    /\ CoordinatorNotifying => connectionsMux # Coordinator
    /\ \A h \in HandlersNotifying : connectionsMux # h

\* C17, amended: the status reports are sent holding statusMux and not
\* connectionsMux, the event holding neither, and the completion
\* notification holding connectionsMux and not statusMux.
C17_Amended ==
    /\ usPc = "send" =>
          (statusMux = Coordinator /\ connectionsMux # Coordinator)
    /\ coordPc = "notify" =>
          (statusMux # Coordinator /\ connectionsMux # Coordinator)
    /\ \A h \in HandlersNotifying : connectionsMux = h /\ statusMux # h

\* A completion notification in progress under connectionsMux while the
\* coordinator sends a status report under statusMux.
C17_Witness ==
    /\ HandlersNotifying # {}
    /\ usPc = "send"
    /\ statusMux = Coordinator
    /\ connectionsMux \in HandlersNotifying

(***************************************************************************)
(* C18.  On start the status goes from Inactive to Starting before it      *)
(* becomes Running: Running is entered from Starting.                      *)
(***************************************************************************)
C18_StartingBeforeRunning ==
    status = InstanceStatus.Running => prevStatus = InstanceStatus.Starting

(***************************************************************************)
(* C20.  Every admitted session yields one processing task, which sends    *)
(* one completion notification carrying the id the session was admitted    *)
(* under and calls wg.Done once; the wait-group counter equals the number  *)
(* of started tasks that have not finished and is never negative.          *)
(***************************************************************************)
\* Processing tasks started (wg.Add done) and not yet returned.
RunningTasks == { h \in Handlers : hpc[h] \in {"stream", "complete", "unlock"} }

\* C20: the counter counts the running tasks, the completions sent equal
\* the tasks past their notification, and each task sends its own id once.
C20_OneTaskOneCompletion ==
    /\ [](wg >= 0 /\ wg = Cardinality(RunningTasks))
    /\ [](Sum(completions, UUIDs) = Cardinality(CompletionsSent))
    /\ [][ (\A h \in Handlers :
               (hpc[h] = "complete" /\ hpc'[h] # "complete") =>
                   /\ hpc'[h] = "unlock"
                   /\ completions' =
                        [completions EXCEPT ![hreq[h].uuid] = @ + 1]) ]_vars

\* Two sessions admitted under different ids have both completed: one
\* notification each, and the counter is back at 0.
C20_Witness ==
    /\ \E h1, h2 \in Handlers :
          /\ h1 # h2
          /\ hpc[h1] = "done" /\ response[h1] = 200
          /\ hpc[h2] = "done" /\ response[h2] = 200
    /\ \A u \in UUIDs : completions[u] = 1
    /\ wg = 0

(***************************************************************************)
(* C15.  Every ShutdownRequested report carries the reason of the timer    *)
(* whose delivery the coordinator consumed; status becomes                 *)
(* ShutdownRequested only from Running; and status becomes ShuttingDown    *)
(* only from ShutdownRequested, once every session registered before the   *)
(* request has finished its processing task.                               *)
(***************************************************************************)
C15_ReasonOfConsumedTimer ==
    \A i \in DOMAIN statusReports :
       statusReports[i].status = InstanceStatus.ShutdownRequested =>
          \/ /\ statusReports[i].reason = ShutdownReason.Lifetime
             /\ lifetimePc = "done"
          \/ /\ statusReports[i].reason = ShutdownReason.Usage
             /\ usagePc = "done"

C15_RequestedFromRunning ==
    [][ (status # InstanceStatus.ShutdownRequested
         /\ status' = InstanceStatus.ShutdownRequested)
        => status = InstanceStatus.Running ]_vars

C15_ShuttingDownAfterDrain ==
    [][ (status # InstanceStatus.ShuttingDown
         /\ status' = InstanceStatus.ShuttingDown)
        => (status = InstanceStatus.ShutdownRequested
            /\ admittedBeforeRequest = {}) ]_vars

\* C15: the three parts together.
C15_RequestThenDrain ==
    /\ []C15_ReasonOfConsumedTimer
    /\ C15_RequestedFromRunning
    /\ C15_ShuttingDownAfterDrain

(***************************************************************************)
(* C16.  Every read of len(connections) is made by a task holding          *)
(* connectionsMux: getStatus when it builds its payload, startServer       *)
(* between its Lock and Unlock before the drain.                           *)
(***************************************************************************)
StatusReaders == { g \in StatusHandlers : gpc[g] = "read" }

\* C16: each reader of len(connections) holds connectionsMux.
C16_CountReadUnderRegistryLock ==
    /\ \A g \in StatusReaders : connectionsMux = g
    /\ coordPc = "unlockConnections" => connectionsMux = Coordinator

(***************************************************************************)
(* C19.  No task holds statusMux and connectionsMux together, and in a run *)
(* of finitely many requests the mutexes come to rest: from some point on  *)
(* neither mutex is held and no task is waiting for one, so every mutex    *)
(* that was taken has been released and every task that waited for a mutex *)
(* has acquired it.                                                        *)
(***************************************************************************)
Tasks == Handlers \cup {Coordinator} \cup StatusHandlers

\* The tasks standing at a Lock() call (the processing task reaches its
\* own when HandleStream returns).
WaitingForConnectionsMux ==
    { h \in Handlers : hpc[h] \in {"lock", "stream"} }
       \cup { t \in {Coordinator} : coordPc = "lockConnections" }

WaitingForStatusMux ==
    { g \in StatusHandlers : gpc[g] = "lock" }
       \cup { t \in {Coordinator} : coordPc \in UpdateCalls /\ usPc = "call" }

C19_NeverBothLocks ==
    \A t \in Tasks : ~(statusMux = t /\ connectionsMux = t)

C19_AtRest ==
    /\ statusMux = Free
    /\ connectionsMux = Free
    /\ WaitingForStatusMux = {}
    /\ WaitingForConnectionsMux = {}

\* C19: never both mutexes in one task, and the mutexes come to rest.
C19_LocksCannotDeadlock ==
    /\ []C19_NeverBothLocks
    /\ <>[]C19_AtRest

\* A handler and a getStatus call each wait for a mutex another task holds.
C19_Witness ==
    /\ \E h \in Handlers :
          h \in WaitingForConnectionsMux /\ connectionsMux \in Handlers \ {h}
    /\ \E g \in StatusHandlers :
          g \in WaitingForStatusMux /\ statusMux = Coordinator

====
